---- MODULE Spec2Model ----
(***************************************************************************)
(* Delivery generation, assignment and lifecycle engine of the             *)
(* milk-subscription API (api/src/services/delivery.service.ts,            *)
(* deliveryBoy.service.ts, admin.service.ts).                              *)
(*                                                                         *)
(* The backing store is the three tables the services touch (deliveries,   *)
(* delivery boys, subscriptions; areas are never edited after creation).   *)
(* Every service function is an async function: each `await prisma...` is  *)
(* one atomic store access, and requests interleave between accesses.      *)
(* A request in flight is a slot of `procs` holding the handler's position *)
(* and its local variables.                                                *)
(*                                                                         *)
(*   Spec           one request at a time: each call runs to its end, or   *)
(*                  stops at a crash, before the next one starts           *)
(*   SpecLifecycle  start/complete/fail calls overlap each other           *)
(*   SpecCascade    reassign calls overlap start/complete/fail calls       *)
(*   SpecGenerate   generate calls overlap each other                      *)
(*   SpecDeactivate a deactivation overlaps a generate or reassign call     *)
(*   SpecResolve    the agent lookup, generation and agent updates          *)
(*   SpecGen        generation over every recurrence and start time         *)
(*   SpecPause      generation and the subscription operations              *)
(*   SpecDates      generateDeliveryDates on one set of arguments           *)
(*   SpecRoute      optimizeRoute on one list of stops                      *)
(***************************************************************************)
EXTENDS Integers, Sequences, FiniteSets, TLC

(* ------------------------------ bounds -------------------------------- *)
NumAgents == 2
NumSubs == 1
MaxDay == 0
MaxProcs == 2
TicksPerDay == 2

(* --------------------------- program values --------------------------- *)
NULL == "NULL"
NoAgent == 0
UNDEF == "undefined"
NoDate == -1

Agents == 1..NumAgents
Subs == 1..NumSubs
Slots == 1..MaxProcs
Days == 0..MaxDay
MaxDeliveries == NumSubs * (MaxDay + 1) + 1

\* A Date is a number of ticks; a calendar day holds TicksPerDay of them.
DateOf(day, tod) == day * TicksPerDay + tod
Dates == {DateOf(d, t) : d \in Days, t \in 0..(TicksPerDay - 1)}

\* Date.setHours(0, 0, 0, 0)
SetHoursZero(t) == t - (t % TicksPerDay)

(* ----------------------- areas and postal codes ----------------------- *)
\* Strings are sequences of one-character strings.
Pin11 == <<"1", "1">>
Pin12 == <<"1", "2">>
Pin21 == <<"2", "1">>
Pin22 == <<"2", "2">>

RECURSIVE Join(_)
Join(list) ==
  IF list = <<>> THEN <<>>
  ELSE IF Len(list) = 1 THEN list[1]
  ELSE list[1] \o <<",">> \o Join(Tail(list))

RECURSIVE Split(_)
Split(s) ==
  IF \A i \in 1..Len(s) : s[i] /= ","
  THEN <<s>>
  ELSE LET k == CHOOSE i \in 1..Len(s) :
                  s[i] = "," /\ \A j \in 1..(i - 1) : s[j] /= ","
       IN <<SubSeq(s, 1, k - 1)>> \o Split(SubSeq(s, k + 1, Len(s)))

RECURSIVE Trim(_)
Trim(s) ==
  IF s = <<>> THEN s
  ELSE IF s[1] = " " THEN Trim(Tail(s))
  ELSE IF s[Len(s)] = " " THEN Trim(SubSeq(s, 1, Len(s) - 1))
  ELSE s

\* Prisma string filter { contains: sub }: substring match
Contains(s, sub) ==
  \E i \in 0..(Len(s) - Len(sub)) : SubSeq(s, i + 1, i + Len(sub)) = sub

\* Array.prototype.includes
Includes(list, x) == \E i \in 1..Len(list) : list[i] = x

\* Area rows as createArea stores them: pincodes joined with ','
AreaIds == 1..2
Areas ==
  <<[pincodes |-> Join(<<Pin11, Pin12>>)],
    [pincodes |-> Join(<<Pin11, Pin21>>)]>>

\* newArea.pincodes.split(',').map(p => p.trim())
AreaPincodeList(a) ==
  LET parts == Split(Areas[a].pincodes)
  IN [i \in 1..Len(parts) |-> Trim(parts[i])]

\* Address rows: the delivery address of subscription i
AddressPincodes == <<Pin12, Pin21, Pin11, Pin22>>
AddressPincode(sub) == AddressPincodes[((sub - 1) % Len(AddressPincodes)) + 1]

(* ------------------------------- state -------------------------------- *)
VARIABLES
  deliveries,     \* Delivery table: sequence of rows, the index is the id
  deliveryBoys,   \* DeliveryBoy table: id -> [areaId, isActive]
  subscriptions,  \* Subscription table: id -> row
  procs           \* requests: slot -> handler position and locals while the
                  \* request runs, its outcome once it has ended

vars == <<deliveries, deliveryBoys, subscriptions, procs>>

NoProof == [present |-> FALSE, type |-> NULL, url |-> NULL]
NoReason == [present |-> FALSE, code |-> NULL, notes |-> NULL]

IdleProc ==
  [op |-> "idle", pc |-> "idle", agent |-> NoAgent, area |-> 0, date |-> 0,
   deliv |-> 0, proof |-> NoProof, reason |-> NoReason, data |-> <<>>,
   todo |-> <<>>, found |-> NoAgent, count |-> 0, result |-> NULL, regen |-> FALSE,
   pre |-> <<>>, preBoys |-> <<>>, sub |-> 0, until |-> 0, notify |-> "none"]

\* what is left of request p once it has ended: the result its caller gets
\* ("ok", the error code, or "crashed") and the returned count
Done(p, res) ==
  [IdleProc EXCEPT !.op = p.op, !.pc = "done", !.result = res, !.date = p.date,
                   !.count = IF res = "ok" THEN p.count ELSE 0,
                   !.regen = p.regen, !.deliv = p.deliv, !.agent = p.agent,
                   !.proof = p.proof, !.reason = p.reason, !.notify = p.notify]

Running(s) == procs[s].pc \notin {"idle", "done"}

\* A new request takes the lowest slot that is not running. conc holds the
\* pairs of request classes that may overlap; every other request runs alone.
FreeSlot(s, op, conc) ==
  /\ ~Running(s)
  /\ \A t \in Slots : t < s => Running(t)
  /\ \A t \in Slots : Running(t) => {op, procs[t].op} \in conc

\* Ascending sequence of the elements of a set of numbers
RECURSIVE SeqOfSet(_)
SeqOfSet(S) ==
  IF S = {} THEN <<>>
  ELSE LET m == CHOOSE x \in S : \A y \in S : x <= y
       IN <<m>> \o SeqOfSet(S \ {m})

SubscriptionRow(i, freq, start) ==
  [status |-> "ACTIVE", frequency |-> freq, startDate |-> start,
   pauseStart |-> NoDate, pauseEnd |-> NoDate, pincode |-> AddressPincode(i)]

InitBoys == [a \in Agents |-> [areaId |-> ((a - 1) % Len(Areas)) + 1, isActive |-> TRUE]]

Init ==
  /\ deliveries = <<>>
  /\ deliveryBoys = InitBoys
  /\ subscriptions = [i \in Subs |-> SubscriptionRow(i, "DAILY", DateOf(0, 0))]
  /\ procs = [s \in Slots |-> IdleProc]

(* ------------------------ generateDeliveriesForDate ------------------- *)
\* String.prototype.toUpperCase on the frequency names
ToUpperCase(str) ==
  CASE str = "daily" -> "DAILY"
    [] str = "alternate" -> "ALTERNATE"
    [] str = "weekly" -> "WEEKLY"
    [] OTHER -> str

\* the switch on the frequency as given, without toUpperCase
shouldDeliverOnDateCaseSensitive(startDate, targetDate, frequency) ==
  LET start == SetHoursZero(startDate)
      target == SetHoursZero(targetDate)
      daysDiff == (target - start) \div TicksPerDay
  IN IF target < start THEN FALSE
     ELSE CASE frequency = "DAILY" -> TRUE
            [] frequency = "ALTERNATE" -> daysDiff % 2 = 0
            [] frequency = "WEEKLY" -> daysDiff % 7 = 0
            [] OTHER -> FALSE

\* shouldDeliverOnDate(startDate, targetDate, frequency)
shouldDeliverOnDate(startDate, targetDate, frequency) ==
  LET start == SetHoursZero(startDate)
      target == SetHoursZero(targetDate)
      daysDiff == (target - start) \div TicksPerDay
  IN IF target < start THEN FALSE
     ELSE CASE ToUpperCase(frequency) = "DAILY" -> TRUE
            [] ToUpperCase(frequency) = "ALTERNATE" -> daysDiff % 2 = 0
            [] ToUpperCase(frequency) = "WEEKLY" -> daysDiff % 7 = 0
            [] OTHER -> FALSE

\* prisma.subscription.findMany({ status: 'ACTIVE', startDate: { lte: targetDate } })
ActiveSubscriptionsFor(targetDate) ==
  {i \in Subs : /\ subscriptions[i].status = "ACTIVE"
                /\ subscriptions[i].startDate <= targetDate}

\* the loop's `if (!shouldDeliver) continue` runs without touching the store
RECURSIVE SkipNotDue(_, _, _)
SkipNotDue(todo, snap, targetDate) ==
  IF todo = <<>> THEN todo
  ELSE IF shouldDeliverOnDate(snap[Head(todo)].startDate, targetDate,
                              snap[Head(todo)].frequency)
       THEN todo
       ELSE SkipNotDue(Tail(todo), snap, targetDate)

\* the existence check never finding a row
ExistingDeliveryNever(sub, targetDate) == FALSE

\* prisma.delivery.findFirst({ subscriptionId, deliveryDate: targetDate })
ExistingDelivery(sub, targetDate) ==
  \E k \in 1..Len(deliveries) :
     /\ deliveries[k].subscriptionId = sub
     /\ deliveries[k].deliveryDate = targetDate

\* the lookup without its isActive filter
CoveringBoysAnyActivity(pincode, excluded) ==
  {a \in Agents : /\ a /= excluded
                  /\ Contains(Areas[deliveryBoys[a].areaId].pincodes, pincode)}

\* prisma.deliveryBoy.findFirst({ isActive: true, area: { pincodes: { contains } } })
\* with no orderBy: any matching row, NoAgent (null) when there is none
CoveringBoys(pincode, excluded) ==
  {a \in Agents : /\ a /= excluded
                  /\ deliveryBoys[a].isActive
                  /\ Contains(Areas[deliveryBoys[a].areaId].pincodes, pincode)}

FindFirstBoy(pincode, excluded) ==
  IF CoveringBoys(pincode, excluded) = {} THEN {NoAgent}
  ELSE CoveringBoys(pincode, excluded)

NewDelivery(sub, boy, targetDate) ==
  [subscriptionId |-> sub, deliveryBoyId |-> boy, deliveryDate |-> targetDate,
   status |-> "PENDING", proofUrl |-> NULL, proofType |-> NULL,
   failureReason |-> NULL, failureNotes |-> NULL, completedAt |-> NULL]

\* the other slots when slot s moves: the outcomes of ended requests are
\* kept until the next request arrives
Others(s, t) == IF Running(s) \/ Running(t) THEN procs[t] ELSE IdleProc

\* request s goes on as p / request s ends with result res
Go(s, p) == procs' = [t \in Slots |-> IF t = s THEN p ELSE Others(s, t)]

End(s, p, res) == Go(s, Done(p, res))

BeginGenerate(s, date, conc) ==
  /\ FreeSlot(s, "generate", conc)
  /\ LET targetDate == SetHoursZero(date)
     IN Go(s, [IdleProc EXCEPT !.op = "generate", !.pc = "gen_exists",
                               !.date = targetDate,
                               !.regen = /\ procs[s].pc = "done"
                                         /\ procs[s].op = "generate"
                                         /\ procs[s].result = "ok"
                                         /\ procs[s].date = targetDate,
                               !.data = subscriptions,
                               !.todo = SeqOfSet(ActiveSubscriptionsFor(targetDate))])
  /\ UNCHANGED <<deliveries, deliveryBoys, subscriptions>>

GenExists(s) ==
  /\ procs[s].op = "generate" /\ procs[s].pc = "gen_exists"
  /\ LET p == procs[s]
         due == SkipNotDue(p.todo, p.data, p.date)
     IN IF due = <<>>
        THEN End(s, p, "ok")
        ELSE IF ExistingDelivery(Head(due), p.date)
             THEN Go(s, [p EXCEPT !.todo = Tail(due)])
             ELSE Go(s, [p EXCEPT !.todo = due, !.pc = "gen_find"])
  /\ UNCHANGED <<deliveries, deliveryBoys, subscriptions>>

GenFind(s) ==
  /\ procs[s].op = "generate" /\ procs[s].pc = "gen_find"
  /\ LET p == procs[s]
     IN \E boy \in FindFirstBoy(p.data[Head(p.todo)].pincode, NoAgent) :
          Go(s, [p EXCEPT !.found = boy, !.pc = "gen_create"])
  /\ UNCHANGED <<deliveries, deliveryBoys, subscriptions>>

GenCreate(s, cap) ==
  /\ procs[s].op = "generate" /\ procs[s].pc = "gen_create"
  /\ Len(deliveries) < cap
  /\ LET p == procs[s]
     IN /\ deliveries' = Append(deliveries, NewDelivery(Head(p.todo), p.found, p.date))
        /\ Go(s, [p EXCEPT !.todo = Tail(p.todo), !.count = p.count + 1,
                           !.found = NoAgent, !.pc = "gen_exists"])
  /\ UNCHANGED <<deliveryBoys, subscriptions>>

(* ------------------------ findDeliveryBoyForPincode ------------------- *)
\* the argument is any string: the postal codes of the addresses and a
\* fragment of one
PartialPin == <<"1">>
PincodeInputs == {Pin11, Pin12, Pin21, Pin22, PartialPin}

\* one prisma.deliveryBoy.findFirst; the call returns the row, or null
FindDeliveryBoyForPincode(s, pincode, conc) ==
  /\ FreeSlot(s, "find", conc)
  /\ \E boy \in FindFirstBoy(pincode, NoAgent) :
       Go(s, [IdleProc EXCEPT !.op = "find", !.pc = "done", !.result = "ok",
                              !.data = pincode, !.found = boy])
  /\ UNCHANGED <<deliveries, deliveryBoys, subscriptions>>

(* ------------------------ reassignDeliveryBoyArea --------------------- *)
AgentInputs == 1..(NumAgents + 1)
AreaInputs == 1..(Len(Areas) + 1)

\* pendingDeliveries without the filter on the new area's postal codes
DeliveriesToReassignAll(boy, newArea) ==
  {k \in 1..Len(deliveries) :
     /\ deliveries[k].deliveryBoyId = boy
     /\ deliveries[k].status = "PENDING"}

\* pendingDeliveries filtered by !newAreaPincodes.includes(address.pincode)
DeliveriesToReassign(boy, newArea) ==
  {k \in 1..Len(deliveries) :
     /\ deliveries[k].deliveryBoyId = boy
     /\ deliveries[k].status = "PENDING"
     /\ ~Includes(AreaPincodeList(newArea),
                  subscriptions[deliveries[k].subscriptionId].pincode)}

\* the area lookup made before the delivery boy lookup
BeginReassignAreaFirst(s, boy, newArea, conc) ==
  /\ FreeSlot(s, "reassign", conc)
  /\ LET p == [IdleProc EXCEPT !.op = "reassign", !.agent = boy, !.area = newArea,
                               !.pre = deliveries, !.preBoys = deliveryBoys]
     IN IF newArea \notin AreaIds THEN End(s, p, "DBOY_002")
        ELSE IF boy \notin Agents THEN End(s, p, "DBOY_001")
        ELSE IF deliveryBoys[boy].areaId = newArea THEN End(s, p, "ok")
        ELSE Go(s, [p EXCEPT !.pc = "re_collect"])
  /\ UNCHANGED <<deliveries, deliveryBoys, subscriptions>>

\* the two findUnique lookups with their throws, then the same-area return
BeginReassign(s, boy, newArea, conc) ==
  /\ FreeSlot(s, "reassign", conc)
  /\ LET p == [IdleProc EXCEPT !.op = "reassign", !.agent = boy, !.area = newArea,
                               !.pre = deliveries, !.preBoys = deliveryBoys]
     IN IF boy \notin Agents THEN End(s, p, "DBOY_001")
        ELSE IF newArea \notin AreaIds THEN End(s, p, "DBOY_002")
        ELSE IF deliveryBoys[boy].areaId = newArea THEN End(s, p, "ok")
        ELSE Go(s, [p EXCEPT !.pc = "re_collect"])
  /\ UNCHANGED <<deliveries, deliveryBoys, subscriptions>>

ReCollect(s) ==
  /\ procs[s].op = "reassign" /\ procs[s].pc = "re_collect"
  /\ LET p == procs[s]
         todo == SeqOfSet(DeliveriesToReassign(p.agent, p.area))
     IN Go(s, [p EXCEPT !.todo = todo,
                        !.pc = IF todo = <<>> THEN "re_area" ELSE "re_find"])
  /\ UNCHANGED <<deliveries, deliveryBoys, subscriptions>>

ReFind(s) ==
  /\ procs[s].op = "reassign" /\ procs[s].pc = "re_find"
  /\ LET p == procs[s]
         pincode == subscriptions[deliveries[Head(p.todo)].subscriptionId].pincode
     IN \E boy \in FindFirstBoy(pincode, p.agent) :
          Go(s, [p EXCEPT !.found = boy, !.pc = "re_write"])
  /\ UNCHANGED <<deliveries, deliveryBoys, subscriptions>>

\* prisma.delivery.update({ where: { id }, data: { deliveryBoyId } })
ReWrite(s) ==
  /\ procs[s].op = "reassign" /\ procs[s].pc = "re_write"
  /\ LET p == procs[s]
     IN /\ deliveries' = [deliveries EXCEPT ![Head(p.todo)].deliveryBoyId = p.found]
        /\ Go(s, [p EXCEPT !.todo = Tail(p.todo), !.count = p.count + 1,
                           !.found = NoAgent,
                           !.pc = IF Tail(p.todo) = <<>> THEN "re_area" ELSE "re_find"])
  /\ UNCHANGED <<deliveryBoys, subscriptions>>

ReArea(s) ==
  /\ procs[s].op = "reassign" /\ procs[s].pc = "re_area"
  /\ deliveryBoys' = [deliveryBoys EXCEPT ![procs[s].agent].areaId = procs[s].area]
  /\ End(s, procs[s], "ok")
  /\ UNCHANGED <<deliveries, subscriptions>>

(* ------------------------- deactivateDeliveryBoy ---------------------- *)
BeginDeactivate(s, boy, conc) ==
  /\ FreeSlot(s, "deactivate", conc)
  /\ LET p == [IdleProc EXCEPT !.op = "deactivate", !.agent = boy, !.pre = deliveries]
     IN IF boy \notin Agents THEN End(s, p, "DBOY_001")
        ELSE Go(s, [p EXCEPT !.pc = "de_unassign"])
  /\ UNCHANGED <<deliveries, deliveryBoys, subscriptions>>

\* the updateMany without its status filter
DeUnassignAnyStatus(s) ==
  /\ procs[s].op = "deactivate" /\ procs[s].pc = "de_unassign"
  /\ deliveries' = [k \in 1..Len(deliveries) |->
       IF deliveries[k].deliveryBoyId = procs[s].agent
       THEN [deliveries[k] EXCEPT !.deliveryBoyId = NoAgent]
       ELSE deliveries[k]]
  /\ Go(s, [procs[s] EXCEPT !.pc = "de_update"])
  /\ UNCHANGED <<deliveryBoys, subscriptions>>

\* prisma.delivery.updateMany({ deliveryBoyId, status: 'PENDING' } -> deliveryBoyId: null)
DeUnassign(s) ==
  /\ procs[s].op = "deactivate" /\ procs[s].pc = "de_unassign"
  /\ deliveries' = [k \in 1..Len(deliveries) |->
       IF deliveries[k].deliveryBoyId = procs[s].agent /\ deliveries[k].status = "PENDING"
       THEN [deliveries[k] EXCEPT !.deliveryBoyId = NoAgent]
       ELSE deliveries[k]]
  /\ Go(s, [procs[s] EXCEPT !.pc = "de_update"])
  /\ UNCHANGED <<deliveryBoys, subscriptions>>

DeUpdate(s) ==
  /\ procs[s].op = "deactivate" /\ procs[s].pc = "de_update"
  /\ deliveryBoys' = [deliveryBoys EXCEPT ![procs[s].agent].isActive = FALSE]
  /\ End(s, procs[s], "ok")
  /\ UNCHANGED <<deliveries, subscriptions>>

(* --------------------------- updateDeliveryBoy ------------------------ *)
\* data: areaId 0 stands for an absent areaId, isActive is UNDEF when absent
UpdateInputs ==
  [areaId : 1..(Len(Areas) + 1), isActive : {UNDEF}]
    \cup [areaId : {0}, isActive : {"true", "false"}]

ApplyBoyUpdate(row, data) ==
  [areaId |-> IF data.areaId /= 0 THEN data.areaId ELSE row.areaId,
   isActive |-> IF data.isActive = UNDEF THEN row.isActive ELSE data.isActive = "true"]

BeginUpdateDeliveryBoy(s, boy, data, conc) ==
  /\ FreeSlot(s, "update", conc)
  /\ LET p == [IdleProc EXCEPT !.op = "update", !.agent = boy, !.data = data]
     IN IF boy \notin Agents THEN End(s, p, "DBOY_001")
        ELSE IF data.areaId /= 0 /\ data.areaId \notin AreaIds THEN End(s, p, "DBOY_002")
        ELSE Go(s, [p EXCEPT !.pc = "up_write"])
  /\ UNCHANGED <<deliveries, deliveryBoys, subscriptions>>

UpWrite(s) ==
  /\ procs[s].op = "update" /\ procs[s].pc = "up_write"
  /\ deliveryBoys' = [deliveryBoys EXCEPT ![procs[s].agent] =
                        ApplyBoyUpdate(deliveryBoys[procs[s].agent], procs[s].data)]
  /\ End(s, procs[s], "ok")
  /\ UNCHANGED <<deliveries, subscriptions>>

\* adminService.updateDeliveryBoy: one prisma.deliveryBoy.update, no checks
AdminUpdateDeliveryBoy(s, boy, data, conc) ==
  /\ FreeSlot(s, "adminUpdate", conc)
  /\ boy \in Agents
  /\ data.areaId \in {0} \cup AreaIds
  /\ deliveryBoys' = [deliveryBoys EXCEPT ![boy] = ApplyBoyUpdate(deliveryBoys[boy], data)]
  /\ End(s, [IdleProc EXCEPT !.op = "adminUpdate"], "ok")
  /\ UNCHANGED <<deliveries, subscriptions>>

(* ------------------------------ lifecycle ----------------------------- *)
FAILURE_REASONS ==
  {"CUSTOMER_UNAVAILABLE", "WRONG_ADDRESS", "CUSTOMER_REFUSED", "ACCESS_DENIED",
   "WEATHER_CONDITIONS", "VEHICLE_BREAKDOWN", "OTHER"}

\* keys every object literal inherits from Object.prototype
ObjectPrototypeKeys == {"constructor", "toString", "valueOf", "hasOwnProperty"}

\* the truthiness of FAILURE_REASONS[code]
FailureReasonLookup(code) == code \in FAILURE_REASONS \cup ObjectPrototypeKeys

DeliveryInputs == 1..MaxDeliveries

ProofInputs ==
  {NoProof,
   [present |-> TRUE, type |-> "photo", url |-> ""],
   [present |-> TRUE, type |-> "photo", url |-> "u1"]}

ReasonInputs ==
  {NoReason,
   [present |-> TRUE, code |-> "", notes |-> NULL],
   [present |-> TRUE, code |-> "OTHER", notes |-> "note"],
   [present |-> TRUE, code |-> "BOGUS", notes |-> NULL],
   [present |-> TRUE, code |-> "constructor", notes |-> NULL]}

NonTerminal == {"PENDING", "IN_PROGRESS"}
Terminal == {"DELIVERED", "FAILED"}

\* how the promise of sendDeliveryCompletedNotification or
\* sendDeliveryFailedNotification settles; its .catch handler only logs
NotificationOutcomes == {"sent", "failed"}

\* markDeliveryCompleted without its proof guard
CompleteGuardNoProof(id, boy, proof) ==
  IF id > Len(deliveries) THEN "DEL_001"
  ELSE IF deliveries[id].deliveryBoyId /= boy THEN "DEL_005"
  ELSE IF deliveries[id].status = "DELIVERED" THEN "DEL_002"
  ELSE "ok"

\* guards of markDeliveryCompleted, in the order of the code
CompleteGuard(id, boy, proof) ==
  IF id > Len(deliveries) THEN "DEL_001"
  ELSE IF deliveries[id].deliveryBoyId /= boy THEN "DEL_005"
  ELSE IF deliveries[id].status = "DELIVERED" THEN "DEL_002"
  ELSE IF ~proof.present \/ proof.url = "" THEN "DEL_003"
  ELSE "ok"

BeginComplete(s, id, boy, proof, conc) ==
  /\ FreeSlot(s, "complete", conc)
  /\ LET p == [IdleProc EXCEPT !.op = "complete", !.deliv = id, !.agent = boy,
                               !.proof = proof]
         g == CompleteGuard(id, boy, proof)
     IN IF g = "ok" THEN Go(s, [p EXCEPT !.pc = "co_write"]) ELSE End(s, p, g)
  /\ UNCHANGED <<deliveries, deliveryBoys, subscriptions>>

\* the write, then the notification awaited with no catch handler
CoWriteAwaited(s) ==
  /\ procs[s].op = "complete" /\ procs[s].pc = "co_write"
  /\ deliveries' = [deliveries EXCEPT ![procs[s].deliv] =
       [@ EXCEPT !.status = "DELIVERED", !.proofUrl = procs[s].proof.url,
                 !.proofType = procs[s].proof.type, !.completedAt = "now"]]
  /\ \E outcome \in NotificationOutcomes :
       End(s, [procs[s] EXCEPT !.notify = outcome],
           IF outcome = "failed" THEN "error" ELSE "ok")
  /\ UNCHANGED <<deliveryBoys, subscriptions>>

\* prisma.delivery.update, then the notification fired without await, then
\* the return
CoWrite(s) ==
  /\ procs[s].op = "complete" /\ procs[s].pc = "co_write"
  /\ deliveries' = [deliveries EXCEPT ![procs[s].deliv] =
       [@ EXCEPT !.status = "DELIVERED", !.proofUrl = procs[s].proof.url,
                 !.proofType = procs[s].proof.type, !.completedAt = "now"]]
  /\ \E outcome \in NotificationOutcomes :
       End(s, [procs[s] EXCEPT !.notify = outcome], "ok")
  /\ UNCHANGED <<deliveryBoys, subscriptions>>

\* markDeliveryFailed without its acting-agent guard
FailGuardAnyAgent(id, boy, reason) ==
  IF id > Len(deliveries) THEN "DEL_001"
  ELSE IF deliveries[id].status \in {"DELIVERED", "FAILED"} THEN "DEL_006"
  ELSE IF ~reason.present \/ reason.code = "" THEN "DEL_004"
  ELSE IF ~FailureReasonLookup(reason.code) THEN "DEL_007"
  ELSE "ok"

\* guards of markDeliveryFailed, in the order of the code
FailGuard(id, boy, reason) ==
  IF id > Len(deliveries) THEN "DEL_001"
  ELSE IF deliveries[id].deliveryBoyId /= boy THEN "DEL_005"
  ELSE IF deliveries[id].status \in {"DELIVERED", "FAILED"} THEN "DEL_006"
  ELSE IF ~reason.present \/ reason.code = "" THEN "DEL_004"
  ELSE IF ~FailureReasonLookup(reason.code) THEN "DEL_007"
  ELSE "ok"

BeginFail(s, id, boy, reason, conc) ==
  /\ FreeSlot(s, "fail", conc)
  /\ LET p == [IdleProc EXCEPT !.op = "fail", !.deliv = id, !.agent = boy,
                               !.reason = reason]
         g == FailGuard(id, boy, reason)
     IN IF g = "ok" THEN Go(s, [p EXCEPT !.pc = "fa_write"]) ELSE End(s, p, g)
  /\ UNCHANGED <<deliveries, deliveryBoys, subscriptions>>

FaWrite(s) ==
  /\ procs[s].op = "fail" /\ procs[s].pc = "fa_write"
  /\ deliveries' = [deliveries EXCEPT ![procs[s].deliv] =
       [@ EXCEPT !.status = "FAILED", !.failureReason = procs[s].reason.code,
                 !.failureNotes = procs[s].reason.notes, !.completedAt = "now"]]
  /\ \E outcome \in NotificationOutcomes :
       End(s, [procs[s] EXCEPT !.notify = outcome], "ok")
  /\ UNCHANGED <<deliveryBoys, subscriptions>>

\* startDelivery without its status guard
StartGuardAnyStatus(id, boy) ==
  IF id > Len(deliveries) THEN "DEL_001"
  ELSE IF deliveries[id].deliveryBoyId /= boy THEN "DEL_005"
  ELSE "ok"

\* guards of startDelivery, in the order of the code
StartGuard(id, boy) ==
  IF id > Len(deliveries) THEN "DEL_001"
  ELSE IF deliveries[id].deliveryBoyId /= boy THEN "DEL_005"
  ELSE IF deliveries[id].status /= "PENDING" THEN "DEL_008"
  ELSE "ok"

BeginStart(s, id, boy, conc) ==
  /\ FreeSlot(s, "start", conc)
  /\ LET p == [IdleProc EXCEPT !.op = "start", !.deliv = id, !.agent = boy]
         g == StartGuard(id, boy)
     IN IF g = "ok" THEN Go(s, [p EXCEPT !.pc = "st_write"]) ELSE End(s, p, g)
  /\ UNCHANGED <<deliveries, deliveryBoys, subscriptions>>

StWrite(s) ==
  /\ procs[s].op = "start" /\ procs[s].pc = "st_write"
  /\ deliveries' = [deliveries EXCEPT ![procs[s].deliv].status = "IN_PROGRESS"]
  /\ End(s, procs[s], "ok")
  /\ UNCHANGED <<deliveryBoys, subscriptions>>

(* -------------------------------- crash ------------------------------- *)
\* the server process stops, or a store access throws, while the request is
\* between two store accesses; the writes already made stay
Crash(s) ==
  /\ Running(s)
  /\ End(s, procs[s], "crashed")
  /\ UNCHANGED <<deliveries, deliveryBoys, subscriptions>>

(* ---------------------- subscription operations ---------------------- *)
SubInputs == 1..(NumSubs + 1)

\* pauseSubscription: the guards, in the order of the code, on the
\* midnight-normalized window; today is the day the call is made
PauseGuard(sub, startDate, endDate, today) ==
  IF sub \notin Subs THEN "SUB_005"
  ELSE IF subscriptions[sub].status = "CANCELLED" THEN "SUB_008"
  ELSE IF subscriptions[sub].status = "PAUSED" THEN "SUB_009"
  ELSE IF endDate <= startDate THEN "SUB_004"
  ELSE IF startDate < today THEN "SUB_010"
  ELSE "ok"

BeginPause(s, sub, from, to, now, conc) ==
  /\ FreeSlot(s, "pause", conc)
  /\ LET startDate == SetHoursZero(from)
         endDate == SetHoursZero(to)
         p == [IdleProc EXCEPT !.op = "pause", !.sub = sub,
                               !.date = startDate, !.until = endDate]
         g == PauseGuard(sub, startDate, endDate, SetHoursZero(now))
     IN IF g = "ok" THEN Go(s, [p EXCEPT !.pc = "pa_write"]) ELSE End(s, p, g)
  /\ UNCHANGED <<deliveries, deliveryBoys, subscriptions>>

PaWrite(s) ==
  /\ procs[s].op = "pause" /\ procs[s].pc = "pa_write"
  /\ subscriptions' = [subscriptions EXCEPT ![procs[s].sub] =
       [@ EXCEPT !.status = "PAUSED", !.pauseStart = procs[s].date,
                 !.pauseEnd = procs[s].until]]
  /\ End(s, procs[s], "ok")
  /\ UNCHANGED <<deliveries, deliveryBoys>>

BeginResume(s, sub, conc) ==
  /\ FreeSlot(s, "resume", conc)
  /\ LET p == [IdleProc EXCEPT !.op = "resume", !.sub = sub]
     IN IF sub \notin Subs THEN End(s, p, "SUB_005")
        ELSE IF subscriptions[sub].status /= "PAUSED" THEN End(s, p, "SUB_011")
        ELSE Go(s, [p EXCEPT !.pc = "rs_write"])
  /\ UNCHANGED <<deliveries, deliveryBoys, subscriptions>>

RsWrite(s) ==
  /\ procs[s].op = "resume" /\ procs[s].pc = "rs_write"
  /\ subscriptions' = [subscriptions EXCEPT ![procs[s].sub] =
       [@ EXCEPT !.status = "ACTIVE", !.pauseStart = NoDate, !.pauseEnd = NoDate]]
  /\ End(s, procs[s], "ok")
  /\ UNCHANGED <<deliveries, deliveryBoys>>

BeginCancel(s, sub, conc) ==
  /\ FreeSlot(s, "cancel", conc)
  /\ LET p == [IdleProc EXCEPT !.op = "cancel", !.sub = sub]
     IN IF sub \notin Subs THEN End(s, p, "SUB_005")
        ELSE IF subscriptions[sub].status = "CANCELLED" THEN End(s, p, "SUB_012")
        ELSE Go(s, [p EXCEPT !.pc = "ca_write"])
  /\ UNCHANGED <<deliveries, deliveryBoys, subscriptions>>

CaWrite(s) ==
  /\ procs[s].op = "cancel" /\ procs[s].pc = "ca_write"
  /\ subscriptions' = [subscriptions EXCEPT ![procs[s].sub].status = "CANCELLED"]
  /\ End(s, procs[s], "ok")
  /\ UNCHANGED <<deliveries, deliveryBoys>>

\* updateSubscription: data.frequency is written, in upper case, when given;
\* the delivery slot and the products it also writes are not modelled
FrequencyUpdateInputs == {UNDEF, "weekly"}

BeginUpdateSubscription(s, sub, frequency, conc) ==
  /\ FreeSlot(s, "updateSubscription", conc)
  /\ LET p == [IdleProc EXCEPT !.op = "updateSubscription", !.sub = sub,
                               !.data = frequency]
     IN IF sub \notin Subs THEN End(s, p, "SUB_005")
        ELSE IF subscriptions[sub].status = "CANCELLED" THEN End(s, p, "SUB_008")
        ELSE Go(s, [p EXCEPT !.pc = "us_write"])
  /\ UNCHANGED <<deliveries, deliveryBoys, subscriptions>>

UsWrite(s) ==
  /\ procs[s].op = "updateSubscription" /\ procs[s].pc = "us_write"
  /\ subscriptions' = [subscriptions EXCEPT ![procs[s].sub].frequency =
       IF procs[s].data = UNDEF THEN @ ELSE ToUpperCase(procs[s].data)]
  /\ End(s, procs[s], "ok")
  /\ UNCHANGED <<deliveries, deliveryBoys>>

\* adminService.updateCustomerSubscription: data.frequency and data.status
\* are written when given, nothing else is touched
SubscriptionUpdateInputs ==
  [frequency : {UNDEF, "WEEKLY"}, status : {UNDEF, "ACTIVE", "PAUSED", "CANCELLED"}]

BeginUpdateCustomerSubscription(s, sub, data, conc) ==
  /\ FreeSlot(s, "adminSubscription", conc)
  /\ LET p == [IdleProc EXCEPT !.op = "adminSubscription", !.sub = sub, !.data = data]
     IN IF sub \notin Subs THEN End(s, p, "Subscription not found")
        ELSE Go(s, [p EXCEPT !.pc = "as_write"])
  /\ UNCHANGED <<deliveries, deliveryBoys, subscriptions>>

AsWrite(s) ==
  /\ procs[s].op = "adminSubscription" /\ procs[s].pc = "as_write"
  /\ LET data == procs[s].data
     IN subscriptions' = [subscriptions EXCEPT ![procs[s].sub] =
          [@ EXCEPT !.frequency = IF data.frequency = UNDEF THEN @ ELSE data.frequency,
                    !.status = IF data.status = UNDEF THEN @ ELSE data.status]]
  /\ End(s, procs[s], "ok")
  /\ UNCHANGED <<deliveries, deliveryBoys>>

(* ---------------------------- specifications -------------------------- *)
\* the request classes, each with the steps of its handlers
Generate(conc) ==
  \E s \in Slots :
    \/ \E date \in Dates : BeginGenerate(s, date, conc)
    \/ GenExists(s) \/ GenFind(s) \/ GenCreate(s, MaxDeliveries)

Reassign(conc) ==
  \E s \in Slots :
    \/ \E boy \in AgentInputs, area \in AreaInputs : BeginReassign(s, boy, area, conc)
    \/ ReCollect(s) \/ ReFind(s) \/ ReWrite(s) \/ ReArea(s)

Deactivate(conc) ==
  \E s \in Slots :
    \/ \E boy \in AgentInputs : BeginDeactivate(s, boy, conc)
    \/ DeUnassign(s) \/ DeUpdate(s)

UpdateBoy(conc) ==
  \E s \in Slots :
    \/ \E boy \in AgentInputs, data \in UpdateInputs :
         BeginUpdateDeliveryBoy(s, boy, data, conc)
    \/ UpWrite(s)
    \/ \E boy \in Agents, data \in UpdateInputs : AdminUpdateDeliveryBoy(s, boy, data, conc)

Lifecycle(conc) ==
  \E s \in Slots :
    \/ \E id \in DeliveryInputs, boy \in Agents : BeginStart(s, id, boy, conc)
    \/ StWrite(s)
    \/ \E id \in DeliveryInputs, boy \in Agents, proof \in ProofInputs :
         BeginComplete(s, id, boy, proof, conc)
    \/ CoWrite(s)
    \/ \E id \in DeliveryInputs, boy \in Agents, reason \in ReasonInputs :
         BeginFail(s, id, boy, reason, conc)
    \/ FaWrite(s)

Crashes == \E s \in Slots : Crash(s)

\* every request class, one request at a time
Next ==
  \/ Generate({}) \/ Reassign({}) \/ Deactivate({}) \/ UpdateBoy({})
  \/ Lifecycle({}) \/ Crashes

Spec == Init /\ [][Next]_vars

\* lifecycle calls overlap each other
LifecycleOps == {"start", "complete", "fail"}
LifecycleCalls == {{a, b} : a, b \in LifecycleOps}

NextLifecycle ==
  \/ Generate(LifecycleCalls) \/ Deactivate(LifecycleCalls)
  \/ Lifecycle(LifecycleCalls) \/ Crashes

SpecLifecycle == Init /\ [][NextLifecycle]_vars

\* an area reassignment overlaps a lifecycle call
CascadeCalls == {{"reassign", a} : a \in LifecycleOps}

NextCascade ==
  \/ Generate(CascadeCalls) \/ Reassign(CascadeCalls) \/ Lifecycle(CascadeCalls)
  \/ Crashes

SpecCascade == Init /\ [][NextCascade]_vars

\* generation runs overlap each other
GenerateCalls == {{"generate"}}

NextGenerate ==
  \/ Generate(GenerateCalls) \/ Deactivate(GenerateCalls) \/ Lifecycle(GenerateCalls)
  \/ Crashes

SpecGenerate == Init /\ [][NextGenerate]_vars

\* a deactivation overlaps a generation run or a reassignment
DeactivateCalls == {{"deactivate", "generate"}, {"deactivate", "reassign"}}

NextDeactivate ==
  \/ Generate(DeactivateCalls) \/ Reassign(DeactivateCalls)
  \/ Deactivate(DeactivateCalls) \/ UpdateBoy(DeactivateCalls) \/ Crashes

SpecDeactivate == Init /\ [][NextDeactivate]_vars

\* generation alone, one run at a time, over subscriptions of every recurrence
\* created with a start timestamp at any time of day
MaxStartDay == 1
MaxGenDay == 8
MaxGenDeliveries == 2
Frequencies == {"DAILY", "ALTERNATE", "WEEKLY"}
StartDates == {DateOf(d, t) : d \in 0..MaxStartDay, t \in 0..(TicksPerDay - 1)}
GenDates == {DateOf(d, t) : d \in 0..MaxGenDay, t \in 0..(TicksPerDay - 1)}

InitGen ==
  /\ deliveries = <<>>
  /\ deliveryBoys = InitBoys
  /\ subscriptions \in {[i \in Subs |-> SubscriptionRow(i, f, st)] :
                          f \in Frequencies, st \in StartDates}
  /\ procs = [s \in Slots |-> IdleProc]

NextGen ==
  \E s \in Slots :
    \/ \E date \in GenDates : BeginGenerate(s, date, {})
    \/ GenExists(s) \/ GenFind(s) \/ GenCreate(s, MaxGenDeliveries)

SpecGen == InitGen /\ [][NextGen]_vars

\* generation and the subscription operations, one request at a time, over
\* the days a pause window can span
MaxPauseDay == 2
PauseDates == {DateOf(d, t) : d \in 0..MaxPauseDay, t \in 0..(TicksPerDay - 1)}

NextPause ==
  \E s \in Slots :
    \/ \E date \in PauseDates : BeginGenerate(s, date, {})
    \/ GenExists(s) \/ GenFind(s) \/ GenCreate(s, MaxDeliveries)
    \/ \E sub \in SubInputs, from \in PauseDates, to \in PauseDates, now \in PauseDates :
         BeginPause(s, sub, from, to, now, {})
    \/ PaWrite(s)
    \/ \E sub \in SubInputs : BeginResume(s, sub, {})
    \/ RsWrite(s)
    \/ \E sub \in SubInputs : BeginCancel(s, sub, {})
    \/ CaWrite(s)
    \/ \E sub \in SubInputs, data \in SubscriptionUpdateInputs :
         BeginUpdateCustomerSubscription(s, sub, data, {})
    \/ AsWrite(s)
    \/ \E sub \in SubInputs, frequency \in FrequencyUpdateInputs :
         BeginUpdateSubscription(s, sub, frequency, {})
    \/ UsWrite(s)

SpecPause == Init /\ [][NextPause]_vars

\* the agent lookup, alone and inside a generation run, over agents that are
\* deactivated and moved between areas; one request at a time
Resolve(conc) ==
  \E s \in Slots, pincode \in PincodeInputs : FindDeliveryBoyForPincode(s, pincode, conc)

NextResolve == Resolve({}) \/ Generate({}) \/ Deactivate({}) \/ UpdateBoy({})

SpecResolve == Init /\ [][NextResolve]_vars

(* -------------------------- generateDeliveryDates --------------------- *)
MaxCount == 3
CountInputs == 0..MaxCount
DeliveryFrequency == {"daily", "alternate", "weekly"}
PauseInputs == PauseDates \cup {NoDate}

\* the while loop: currentDate steps by intervalDays until count dates are
\* pushed; the pause test compares currentDate with the bounds as given
RECURSIVE DeliveryDatesFrom(_, _, _, _, _, _)
DeliveryDatesFrom(dates, currentDate, intervalDays, count, pauseStart, pauseEnd) ==
  IF Len(dates) >= count THEN dates
  ELSE LET isInPausePeriod == /\ pauseStart /= NoDate /\ pauseEnd /= NoDate
                              /\ currentDate >= pauseStart
                              /\ currentDate <= pauseEnd
       IN DeliveryDatesFrom(IF isInPausePeriod THEN dates ELSE Append(dates, currentDate),
                            currentDate + intervalDays * TicksPerDay,
                            intervalDays, count, pauseStart, pauseEnd)

generateDeliveryDates(startDate, frequency, count, pauseStart, pauseEnd) ==
  LET intervalDays == IF frequency = "daily" THEN 1
                      ELSE IF frequency = "alternate" THEN 2 ELSE 7
  IN DeliveryDatesFrom(<<>>, SetHoursZero(startDate), intervalDays, count,
                       pauseStart, pauseEnd)

isDateInPausePeriod(date, pauseStart, pauseEnd) ==
  IF pauseStart = NoDate \/ pauseEnd = NoDate THEN FALSE
  ELSE /\ SetHoursZero(date) >= SetHoursZero(pauseStart)
       /\ SetHoursZero(date) <= SetHoursZero(pauseEnd)

\* the schedule of one set of arguments: subscriptions holds the start
\* date, the frequency and the pause period, the request's slot the count and
\* the returned dates
InitDates ==
  /\ deliveries = <<>>
  /\ deliveryBoys = InitBoys
  /\ subscriptions \in
       {[i \in Subs |-> [SubscriptionRow(i, f, st) EXCEPT !.pauseStart = ps,
                                                         !.pauseEnd = pe]] :
          f \in DeliveryFrequency, st \in StartDates,
          ps \in PauseInputs, pe \in PauseInputs}
  /\ procs = [s \in Slots |-> IdleProc]

GenerateDeliveryDates(s, sub, count) ==
  /\ FreeSlot(s, "dates", {})
  /\ procs[s].pc = "idle"
  /\ LET row == subscriptions[sub]
     IN Go(s, [IdleProc EXCEPT
                 !.op = "dates", !.pc = "done", !.result = "ok", !.sub = sub,
                 !.count = count,
                 !.todo = generateDeliveryDates(row.startDate, row.frequency, count,
                                                row.pauseStart, row.pauseEnd)])
  /\ UNCHANGED <<deliveries, deliveryBoys, subscriptions>>

NextDates == \E s \in Slots, sub \in Subs, count \in CountInputs : GenerateDeliveryDates(s, sub, count)

SpecDates == InitDates /\ [][NextDates]_vars

(* ----------------------------- optimizeRoute -------------------------- *)
\* Stops lie on one meridian, where the haversine distance is the Earth's
\* radius times the difference of the latitudes in radians: 6371 km * pi / 180
\* per degree, in metres.
MetresPerDegree == 111195
DefaultMetres == 1000
RouteLng == 77
MinLat == 8
MaxLat == 13
MaxStops == 4
\* one latitude nearer to the equator than to MinLat
NearLat == 3

NoCoordinates == [present |-> FALSE, lat |-> 0, lng |-> 0]
CoordinateInputs ==
  {NoCoordinates}
    \cup [present : {TRUE}, lat : {0, NearLat} \cup MinLat..MaxLat, lng : {RouteLng}]
\* the lists of n stops, numbered in input order
RouteInputs(n) ==
  {[i \in 1..n |-> [id |-> i, coordinates |-> c[i]]] : c \in [1..n -> CoordinateInputs]}

Abs(x) == IF x < 0 THEN -x ELSE x

calculateDistance(lat1, lng1, lat2, lng2) ==
  IF lng1 = lng2 THEN MetresPerDegree * Abs(lat2 - lat1) ELSE DefaultMetres

RECURSIVE calculateTotalDistance(_)
calculateTotalDistance(list) ==
  IF Len(list) < 2 THEN 0
  ELSE LET prev == list[1].coordinates
           curr == list[2].coordinates
       IN (IF prev.present /\ curr.present
           THEN calculateDistance(prev.lat, prev.lng, curr.lat, curr.lng)
           ELSE DefaultMetres)
          + calculateTotalDistance(Tail(list))

\* d.address.coordinates?.lat && d.address.coordinates?.lng
HasCoords(d) == d.coordinates.present /\ d.coordinates.lat /= 0 /\ d.coordinates.lng /= 0

\* the second filter with && in place of ||
LacksCoordsBoth(d) ==
  ~d.coordinates.present \/ (d.coordinates.lat = 0 /\ d.coordinates.lng = 0)

\* !d.address.coordinates?.lat || !d.address.coordinates?.lng
LacksCoords(d) ==
  ~d.coordinates.present \/ d.coordinates.lat = 0 \/ d.coordinates.lng = 0

\* the first index of remaining at the smallest distance from last
NearestIdx(last, remaining) ==
  LET dist(i) == calculateDistance(last.coordinates.lat, last.coordinates.lng,
                                   remaining[i].coordinates.lat,
                                   remaining[i].coordinates.lng)
  IN CHOOSE i \in 1..Len(remaining) :
       \A j \in 1..Len(remaining) :
         dist(i) <= dist(j) /\ (j < i => dist(i) < dist(j))

\* remaining.splice(idx, 1)
Splice(list, idx) == SubSeq(list, 1, idx - 1) \o SubSeq(list, idx + 1, Len(list))

RECURSIVE NearestNeighbour(_, _)
NearestNeighbour(optimized, remaining) ==
  IF remaining = <<>> THEN optimized
  ELSE LET idx == NearestIdx(optimized[Len(optimized)], remaining)
       IN NearestNeighbour(Append(optimized, remaining[idx]), Splice(remaining, idx))

optimizeRoute(list) ==
  IF Len(list) <= 1 THEN list
  ELSE LET withCoords == SelectSeq(list, HasCoords)
           withoutCoords == SelectSeq(list, LacksCoords)
       IN IF Len(withCoords) <= 1 THEN withCoords \o withoutCoords
          ELSE NearestNeighbour(<<Head(withCoords)>>, Tail(withCoords)) \o withoutCoords

\* the route of one list of stops: deliveries holds the input, the request's
\* slot the returned ordering
InitRoute ==
  /\ \E n \in 0..MaxStops : deliveries \in RouteInputs(n)
  /\ deliveryBoys = InitBoys
  /\ subscriptions = [i \in Subs |-> SubscriptionRow(i, "DAILY", DateOf(0, 0))]
  /\ procs = [s \in Slots |-> IdleProc]

OptimizeRoute(s) ==
  /\ FreeSlot(s, "route", {})
  /\ procs[s].pc = "idle"
  /\ Go(s, [IdleProc EXCEPT !.op = "route", !.pc = "done", !.result = "ok",
                            !.todo = optimizeRoute(deliveries)])
  /\ UNCHANGED <<deliveries, deliveryBoys, subscriptions>>

NextRoute == \E s \in Slots : OptimizeRoute(s)

SpecRoute == InitRoute /\ [][NextRoute]_vars

(* ------------------------------- properties --------------------------- *)
Rows == 1..Len(deliveries)
Pincode(k) == subscriptions[deliveries[k].subscriptionId].pincode

\* C1: an obligation whose status is delivered or failed keeps that status in
\* every step, and no complete or fail call gets past its guards to the write
\* on an obligation that is already delivered or failed.
TerminalAbsorbing ==
  [][/\ \A k \in Rows :
          deliveries[k].status \in Terminal
            => deliveries'[k].status = deliveries[k].status
     /\ \A s \in Slots :
          procs'[s].pc \in {"co_write", "fa_write"}
            => deliveries'[procs'[s].deliv].status \notin Terminal]_vars

\* C2: every obligation stores a proof (type and URL) iff it is delivered, a
\* failure reason code iff it is failed, and a completion timestamp iff it is
\* delivered or failed.
ProofReasonTimestamp ==
  \A k \in Rows :
    /\ (deliveries[k].proofUrl /= NULL /\ deliveries[k].proofType /= NULL)
         <=> deliveries[k].status = "DELIVERED"
    /\ deliveries[k].failureReason /= NULL <=> deliveries[k].status = "FAILED"
    /\ deliveries[k].completedAt /= NULL <=> deliveries[k].status \in Terminal

\* C3: no pending obligation is assigned to an agent whose current area does
\* not contain the postal code of the obligation's address.
PendingInsideArea ==
  \A k \in Rows :
    (deliveries[k].status = "PENDING" /\ deliveries[k].deliveryBoyId /= NoAgent)
      => Includes(AreaPincodeList(deliveryBoys[deliveries[k].deliveryBoyId].areaId),
                  Pincode(k))

\* the obligations a reassignment of agent boy to newArea has to move, taken
\* from the rows as they were when the call began
Affected(pre, boy, newArea) ==
  {k \in 1..Len(pre) :
     /\ pre[k].status = "PENDING"
     /\ pre[k].deliveryBoyId = boy
     /\ ~Includes(AreaPincodeList(newArea), subscriptions[pre[k].subscriptionId].pincode)}

\* the active agents other than boy whose area lists pincode
Coverers(boys, boy, pincode) ==
  {b \in Agents \ {boy} :
     boys[b].isActive /\ Includes(AreaPincodeList(boys[b].areaId), pincode)}

\* every affected obligation is with a covering agent, or with none if there is none
AllMoved(rows, boys, p) ==
  \A k \in Affected(p.pre, p.agent, p.area) :
    LET cov == Coverers(boys, p.agent, Pincode(k))
    IN IF cov = {} THEN rows[k].deliveryBoyId = NoAgent
       ELSE rows[k].deliveryBoyId \in cov

ReassignOnlyPending ==
  [][\A s \in Slots, k \in Rows :
       (/\ procs[s].op = "reassign" /\ procs[s].pc = "re_write"
        /\ deliveries[k].status /= "PENDING")
         => deliveries'[k].deliveryBoyId = deliveries[k].deliveryBoyId]_vars

\* C6: of two overlapping complete/fail calls on the same obligation at most
\* one succeeds.
OneLifecycleWinner ==
  \A s, t \in Slots :
    (/\ s /= t
     /\ procs[s].pc = "done" /\ procs[t].pc = "done"
     /\ procs[s].op \in {"complete", "fail"} /\ procs[t].op \in {"complete", "fail"}
     /\ procs[s].deliv = procs[t].deliv)
      => ~(procs[s].result = "ok" /\ procs[t].result = "ok")

\* C7: when a reassignment stops between two of its store accesses, the store
\* shows all of its writes (every affected obligation moved and the new area)
\* or none of them.
ReassignAllOrNothing ==
  [][\A s \in Slots :
       (/\ procs[s].op = "reassign" /\ Running(s)
        /\ procs'[s].pc = "done" /\ procs'[s].result = "crashed")
         => \/ /\ deliveries' = procs[s].pre
               /\ deliveryBoys'[procs[s].agent].areaId /= procs[s].area
            \/ /\ deliveryBoys'[procs[s].agent].areaId = procs[s].area
               /\ AllMoved(deliveries', deliveryBoys', procs[s])]_vars

\* C8: at most one obligation exists per (subscription, date) pair.
OnePerSubscriptionDate ==
  \A j, k \in Rows :
    (/\ deliveries[j].subscriptionId = deliveries[k].subscriptionId
     /\ deliveries[j].deliveryDate = deliveries[k].deliveryDate)
      => j = k

\* C9: a generation run for date d that directly follows a completed run for
\* the same date creates no obligation and returns 0.
GenerateIdempotent ==
  [][\A s \in Slots :
       (procs[s].op = "generate" /\ Running(s) /\ procs[s].regen)
         => /\ deliveries' = deliveries
            /\ (procs'[s].pc = "done" /\ procs'[s].result = "ok")
                 => procs'[s].count = 0]_vars

\* a second run for a date whose obligation exists has returned
GenerateRerunDone ==
  \E s \in Slots :
    /\ procs[s].pc = "done" /\ procs[s].op = "generate" /\ procs[s].result = "ok"
    /\ procs[s].regen
    /\ \E k \in Rows : deliveries[k].deliveryDate = procs[s].date

DayOf(t) == t \div TicksPerDay

\* the recurrence rule on calendar days: start day s, target day d
DueOn(sub, d) ==
  LET s == DayOf(subscriptions[sub].startDate)
      f == subscriptions[sub].frequency
  IN /\ d >= s
     /\ \/ f = "DAILY"
        \/ f = "ALTERNATE" /\ (d - s) % 2 = 0
        \/ f = "WEEKLY" /\ (d - s) % 7 = 0

\* C10: once a generation run for day d has returned, an active subscription
\* without pause window has an obligation on d iff d is not before its start
\* day s and it is daily, or every-other-day with d - s even, or weekly with
\* d - s a multiple of 7.
GenerateIffDue ==
  \A s \in Slots, sub \in Subs :
    (/\ procs[s].pc = "done" /\ procs[s].op = "generate" /\ procs[s].result = "ok"
     /\ subscriptions[sub].status = "ACTIVE"
     /\ subscriptions[sub].pauseStart = NoDate)
      => (ExistingDelivery(sub, procs[s].date) <=> DueOn(sub, DayOf(procs[s].date)))

\* day d lies inside the stored pause window of subscription row, by calendar day
InPauseWindow(row, d) ==
  /\ row.pauseStart /= NoDate /\ row.pauseEnd /= NoDate
  /\ DayOf(row.pauseStart) <= d /\ d <= DayOf(row.pauseEnd)

\* C11: no step creates an obligation for a subscription on a date inside
\* that subscription's stored pause window.
NoObligationInPause ==
  [][\A k \in 1..Len(deliveries') :
       k > Len(deliveries)
         => ~InPauseWindow(subscriptions[deliveries'[k].subscriptionId],
                           DayOf(deliveries'[k].deliveryDate))]_vars

\* slot s takes a new call of class op in this step (requests one at a time)
Arrives(s, op) == ~Running(s) /\ procs'[s].op = op

Rejected(s, code) ==
  /\ procs'[s].pc = "done" /\ procs'[s].result = code
  /\ deliveries' = deliveries

\* the call arriving at slot s is by the assigned agent of an existing
\* obligation whose status is in statuses
ByAssignedAgentOn(s, statuses) ==
  /\ procs'[s].deliv \in Rows
  /\ deliveries[procs'[s].deliv].deliveryBoyId = procs'[s].agent
  /\ deliveries[procs'[s].deliv].status \in statuses

\* C12: a complete call gets to its write only with a proof whose URL is not
\* empty; by the assigned agent on a non-terminal obligation, without proof
\* or with an empty URL, it is rejected with DEL_003 (MissingProof) and the
\* obligations are unchanged.
CompleteNeedsProof ==
  [][\A s \in Slots :
       Arrives(s, "complete")
         => /\ procs'[s].pc = "co_write"
                 => (procs'[s].proof.present /\ procs'[s].proof.url /= "")
            /\ (/\ ByAssignedAgentOn(s, NonTerminal)
                /\ (~procs'[s].proof.present \/ procs'[s].proof.url = ""))
                 => Rejected(s, "DEL_003")]_vars

\* a complete call with an empty proof URL on a non-terminal obligation of
\* the acting agent has been rejected
CompleteRejectedNoProof ==
  \E s \in Slots :
    /\ procs[s].pc = "done" /\ procs[s].op = "complete" /\ procs[s].result = "DEL_003"
    /\ procs[s].proof.present /\ procs[s].proof.url = ""
    /\ procs[s].deliv \in Rows
    /\ deliveries[procs[s].deliv].status \in NonTerminal
    /\ deliveries[procs[s].deliv].deliveryBoyId = procs[s].agent

\* C13: a fail call gets to its write only with one of the seven catalog
\* codes; by the assigned agent on a non-terminal obligation it is rejected
\* with DEL_004 (MissingReason) when the code is absent and with DEL_007
\* (InvalidReasonCode) when the code is outside the catalog, and the
\* obligations are unchanged.
FailNeedsCatalogCode ==
  [][\A s \in Slots :
       Arrives(s, "fail")
         => /\ procs'[s].pc = "fa_write" => procs'[s].reason.code \in FAILURE_REASONS
            /\ (/\ ByAssignedAgentOn(s, NonTerminal)
                /\ (~procs'[s].reason.present \/ procs'[s].reason.code = ""))
                 => Rejected(s, "DEL_004")
            /\ (/\ ByAssignedAgentOn(s, NonTerminal)
                /\ procs'[s].reason.present /\ procs'[s].reason.code /= ""
                /\ procs'[s].reason.code \notin FAILURE_REASONS)
                 => Rejected(s, "DEL_007")]_vars

\* C14: a start call by the assigned agent gets to its write only when the
\* obligation is pending, and the write changes only the status, to
\* IN_PROGRESS; on any other status it is rejected with DEL_008
\* (InvalidTransition) and the obligations are unchanged.
StartOnlyFromPending ==
  [][\A s \in Slots :
       /\ Arrives(s, "start")
            => /\ procs'[s].pc = "st_write"
                    => deliveries[procs'[s].deliv].status = "PENDING"
               /\ ByAssignedAgentOn(s, {"IN_PROGRESS", "DELIVERED", "FAILED"})
                    => Rejected(s, "DEL_008")
       /\ (procs[s].pc = "st_write" /\ procs'[s].result = "ok")
            => deliveries' =
                 [deliveries EXCEPT ![procs[s].deliv].status = "IN_PROGRESS"]]_vars

\* a start call on an obligation that was started before has been rejected
StartRejectedInProgress ==
  \E s \in Slots :
    /\ procs[s].pc = "done" /\ procs[s].op = "start" /\ procs[s].result = "DEL_008"
    /\ procs[s].deliv \in Rows
    /\ deliveries[procs[s].deliv].status = "IN_PROGRESS"
    /\ deliveries[procs[s].deliv].deliveryBoyId = procs[s].agent

\* C15: a start, complete or fail call gets to its write, and succeeds, only
\* when its acting agent is the assigned agent of the obligation; on an
\* existing obligation assigned to another agent or to none it is rejected
\* with DEL_005 (Unauthorized), whatever the status and the inputs, and the
\* obligations are unchanged.
OnlyAssignedAgentActs ==
  [][\A s \in Slots :
       /\ \A op \in LifecycleOps :
            Arrives(s, op)
              => /\ procs'[s].pc \in {"st_write", "co_write", "fa_write"}
                      => deliveries[procs'[s].deliv].deliveryBoyId = procs'[s].agent
                 /\ (/\ procs'[s].deliv \in Rows
                     /\ deliveries[procs'[s].deliv].deliveryBoyId /= procs'[s].agent)
                      => Rejected(s, "DEL_005")
       /\ (/\ procs[s].pc \in {"st_write", "co_write", "fa_write"}
           /\ procs'[s].result = "ok")
            => deliveries[procs[s].deliv].deliveryBoyId = procs[s].agent]_vars

\* a call on an unassigned obligation has been rejected as unauthorized
UnassignedCallRejected ==
  \E s \in Slots :
    /\ procs[s].pc = "done" /\ procs[s].op \in LifecycleOps
    /\ procs[s].result = "DEL_005"
    /\ procs[s].deliv \in Rows
    /\ deliveries[procs[s].deliv].deliveryBoyId = NoAgent

\* C16: when a deactivation of agent A succeeds, A is inactive, every
\* obligation that was pending and assigned to A is unassigned and otherwise
\* as it was, every other obligation is as it was, none is deleted, and no
\* other agent has changed.
DeactivateFrame ==
  [][\A s \in Slots :
       (/\ procs[s].op = "deactivate" /\ procs[s].pc = "de_update"
        /\ procs'[s].pc = "done" /\ procs'[s].result = "ok")
         => LET A == procs[s].agent
                pre == procs[s].pre
            IN /\ ~deliveryBoys'[A].isActive
               /\ deliveryBoys'[A].areaId = deliveryBoys[A].areaId
               /\ \A b \in Agents \ {A} : deliveryBoys'[b] = deliveryBoys[b]
               /\ Len(deliveries') = Len(pre)
               /\ \A k \in 1..Len(pre) :
                    deliveries'[k] =
                      IF pre[k].deliveryBoyId = A /\ pre[k].status = "PENDING"
                      THEN [pre[k] EXCEPT !.deliveryBoyId = NoAgent]
                      ELSE pre[k]]_vars

\* a deactivation has succeeded and left a pending obligation unassigned
DeactivateUnassigned ==
  \E s \in Slots, k \in Rows :
    /\ procs[s].pc = "done" /\ procs[s].op = "deactivate" /\ procs[s].result = "ok"
    /\ ~deliveryBoys[procs[s].agent].isActive
    /\ deliveries[k].status = "PENDING" /\ deliveries[k].deliveryBoyId = NoAgent

\* C17: no pending obligation is assigned to an inactive agent.
NoPendingOnInactive ==
  \A k \in Rows :
    (deliveries[k].status = "PENDING" /\ deliveries[k].deliveryBoyId /= NoAgent)
      => deliveryBoys[deliveries[k].deliveryBoyId].isActive

RouteDone(s) == procs[s].pc = "done" /\ procs[s].op = "route"

\* C18: the ordering optimizeRoute returns has the length of its input and
\* holds every input stop exactly once.
RouteIsPermutation ==
  \A s \in Slots :
    RouteDone(s)
      => /\ Len(procs[s].todo) = Len(deliveries)
         /\ \A i \in 1..Len(deliveries) :
              Cardinality({j \in 1..Len(procs[s].todo) :
                             procs[s].todo[j] = deliveries[i]}) = 1

\* a route of stops with and without usable coordinates has been reordered
RouteReordered ==
  \E s \in Slots :
    /\ RouteDone(s)
    /\ Len(deliveries) = MaxStops
    /\ procs[s].todo /= deliveries
    /\ \E i \in 1..Len(deliveries) : ~HasCoords(deliveries[i])

\* a stop has valid coordinates when its address carries a latitude and a longitude
Geocoded(d) == d.coordinates.present

\* C19: in the returned ordering no stop with valid coordinates comes after
\* a stop without, the stops without coordinates keep their input order, and
\* the first element is the first geocoded stop of the input.
RouteUngeocodedLast ==
  \A s \in Slots :
    RouteDone(s)
      => LET out == procs[s].todo
         IN /\ \A i, j \in 1..Len(out) :
                 (i < j /\ ~Geocoded(out[i])) => ~Geocoded(out[j])
            /\ \A i, j \in 1..Len(out) :
                 (i < j /\ ~Geocoded(out[i]) /\ ~Geocoded(out[j]))
                   => out[i].id < out[j].id
            /\ \A k \in 1..Len(deliveries) :
                 (Geocoded(deliveries[k]) /\ \A m \in 1..(k - 1) : ~Geocoded(deliveries[m]))
                   => out[1] = deliveries[k]

\* C20: for 2 to 10 stops that all have coordinates, the total distance of
\* the returned ordering is at most 1.1 times that of the input order plus
\* 1 km (in metres: 10 * optimized <= 11 * original + 10000).
RouteNotMuchWorse ==
  \A s \in Slots :
    (/\ RouteDone(s)
     /\ Len(deliveries) >= 2 /\ Len(deliveries) <= 10
     /\ \A i \in 1..Len(deliveries) : HasCoords(deliveries[i]))
      => 10 * calculateTotalDistance(procs[s].todo)
           <= 11 * calculateTotalDistance(deliveries) + 10000

\* C21: whether the completion or failure notification is sent or fails, the
\* complete or fail call that made its status write returns success and the
\* obligation is delivered, or failed, after the step; and a notification is
\* triggered only in the step of that write, never for a rejected call.
NotificationBestEffort ==
  [][\A s \in Slots :
       /\ (/\ procs[s].pc \in {"co_write", "fa_write"}
           /\ procs'[s].pc = "done" /\ procs'[s].result /= "crashed")
            => /\ procs'[s].result = "ok"
               /\ deliveries'[procs[s].deliv].status =
                    (IF procs[s].op = "complete" THEN "DELIVERED" ELSE "FAILED")
       /\ (procs'[s].notify /= "none" /\ procs'[s].notify /= procs[s].notify)
            => /\ procs[s].pc \in {"co_write", "fa_write"}
               /\ procs'[s].result = "ok"
               /\ deliveries'[procs[s].deliv].status \in Terminal
       /\ (procs'[s].pc = "done" /\ procs'[s].result /= "ok")
            => procs'[s].notify = "none"]_vars

\* a complete call whose notification failed has returned success
NotificationFailedAfterComplete ==
  \E s \in Slots :
    /\ procs[s].pc = "done" /\ procs[s].op = "complete"
    /\ procs[s].notify = "failed" /\ procs[s].result = "ok"
    /\ deliveries[procs[s].deliv].status = "DELIVERED"

\* the lookup gave an active agent whose area lists pincode as a whole code,
\* and none exactly when there is no such agent
WholeCodeMatch(boy, pincode) ==
  LET cov == Coverers(deliveryBoys, NoAgent, pincode)
  IN IF cov = {} THEN boy = NoAgent ELSE boy \in cov

\* C22: findDeliveryBoyForPincode(code), and the lookup a generation run makes
\* for the obligation it creates, give only an agent that is active and whose
\* area's postal-code list has code as an element, and give none exactly when
\* there is no such agent.
ResolvesWholeCode ==
  [][\A s \in Slots :
       /\ Arrives(s, "find") => WholeCodeMatch(procs'[s].found, procs'[s].data)
       /\ (procs[s].pc = "gen_find" /\ procs'[s].pc = "gen_create")
            => WholeCodeMatch(procs'[s].found,
                              procs[s].data[Head(procs[s].todo)].pincode)]_vars

\* C23: a generation run selects an active subscription and finds it due
\* exactly when it would with the start timestamp replaced by the midnight of
\* its calendar day: the start-date test and the recurrence offset depend
\* only on the calendar days of the start date and of the target date.
GenerateByCalendarDay ==
  [][\A s \in Slots, sub \in Subs :
       (Arrives(s, "generate") /\ subscriptions[sub].status = "ACTIVE")
         => LET row == subscriptions[sub]
                startDay == SetHoursZero(row.startDate)
                targetDate == procs'[s].date
            IN (/\ Includes(procs'[s].todo, sub)
                /\ shouldDeliverOnDate(row.startDate, targetDate, row.frequency))
                 <=> (/\ startDay <= targetDate
                      /\ shouldDeliverOnDate(startDay, targetDate, row.frequency))]_vars

\* the reassign call arriving at slot s ends at once with code, and the
\* obligations and the agents are as they were
ReassignRejected(s, code) ==
  /\ Rejected(s, code)
  /\ deliveryBoys' = deliveryBoys

DatesDone(s) == procs[s].pc = "done" /\ procs[s].op = "dates"

\* C25: for any start date, frequency, count and pause period,
\* generateDeliveryDates returns exactly count dates, and isDateInPausePeriod
\* (inclusive bounds, compared by calendar day) is false for each of them.
DatesOutsidePause ==
  \A s \in Slots :
    DatesDone(s)
      => LET row == subscriptions[procs[s].sub]
             dates == procs[s].todo
         IN /\ Len(dates) = procs[s].count
            /\ \A i \in 1..Len(dates) :
                 ~isDateInPausePeriod(dates[i], row.pauseStart, row.pauseEnd)

\* C26: when a reassignment of agent A to newArea succeeds, the obligations
\* whose agent differs from the one they had when the call began are exactly
\* those that were pending, assigned to A and with a postal code outside
\* newArea; nothing else of any obligation changes, and the returned count is
\* the number of those obligations, whether moved to another agent or left
\* unassigned. A call for the area the agent already has changes nothing and
\* returns 0.
ReassignFrame ==
  [][\A s \in Slots :
       /\ (/\ procs[s].op = "reassign" /\ procs[s].pc = "re_area"
           /\ procs'[s].pc = "done" /\ procs'[s].result = "ok")
            => LET pre == procs[s].pre
                   aff == Affected(pre, procs[s].agent, procs[s].area)
               IN /\ Len(deliveries') = Len(pre)
                  /\ \A k \in 1..Len(pre) :
                       /\ deliveries'[k].deliveryBoyId /= pre[k].deliveryBoyId
                            <=> k \in aff
                       /\ deliveries'[k] =
                            [pre[k] EXCEPT !.deliveryBoyId = deliveries'[k].deliveryBoyId]
                  /\ procs'[s].count = Cardinality(aff)
       /\ (/\ Arrives(s, "reassign")
           /\ procs'[s].pc = "done" /\ procs'[s].result = "ok")
            => deliveries' = deliveries /\ procs'[s].count = 0]_vars

\* a reassignment has succeeded with count 1 and left the obligation it took
\* from the agent unassigned
ReassignCountedUnassigned ==
  \E s \in Slots, k \in Rows :
    /\ procs[s].pc = "done" /\ procs[s].op = "reassign"
    /\ procs[s].result = "ok" /\ procs[s].count = 1
    /\ deliveries[k].status = "PENDING" /\ deliveries[k].deliveryBoyId = NoAgent

\* the distance between two stops that both carry coordinates
StopDistance(a, b) ==
  calculateDistance(a.coordinates.lat, a.coordinates.lng,
                    b.coordinates.lat, b.coordinates.lng)

\* C27: in the returned ordering, each stop after the first inside the
\* leading run of stops with coordinates is at the smallest distance from
\* the stop before it among the stops with coordinates not placed earlier,
\* and among equally distant ones it is the earliest of the input.
RouteNearestNext ==
  \A s \in Slots :
    RouteDone(s)
      => LET out == procs[s].todo
         IN \A i \in 2..Len(out) :
              (\A m \in 1..i : Geocoded(out[m]))
                => \A j \in i..Len(out) :
                     Geocoded(out[j])
                       => /\ StopDistance(out[i - 1], out[i])
                               <= StopDistance(out[i - 1], out[j])
                          /\ StopDistance(out[i - 1], out[i])
                               = StopDistance(out[i - 1], out[j])
                               => out[i].id <= out[j].id

\* C28: an obligation that has no agent has none after every step, and is
\* pending after it: no step assigns an agent to an existing unassigned
\* obligation or moves it out of status pending.
UnassignedStays ==
  [][\A k \in Rows :
       deliveries[k].deliveryBoyId = NoAgent
         => /\ deliveries'[k].deliveryBoyId = NoAgent
            /\ deliveries'[k].status = "PENDING"]_vars

\* C29: a subscription whose status is active has no pause window stored:
\* its pauseStart and pauseEnd are both empty.
ActiveHasNoPauseWindow ==
  \A sub \in Subs :
    subscriptions[sub].status = "ACTIVE"
      => /\ subscriptions[sub].pauseStart = NoDate
         /\ subscriptions[sub].pauseEnd = NoDate

\* the days between two deliveries of a frequency
StepDays(frequency) ==
  CASE frequency = "daily" -> 1
    [] frequency = "alternate" -> 2
    [] frequency = "weekly" -> 7

\* C30: without a pause period, generateDeliveryDates(start, f, n) returns the
\* n dates at midnight of the days s + k * step, k = 0..n-1, where s is the
\* calendar day of start and step is 1 for daily, 2 for alternate and 7 for
\* weekly; and a day from s up to the last returned day is one of them
\* exactly when shouldDeliverOnDate(start, d, f) is true for the dates d of
\* that day.
ScheduleMatchesGenerator ==
  \A s \in Slots :
    (/\ DatesDone(s)
     /\ \/ subscriptions[procs[s].sub].pauseStart = NoDate
        \/ subscriptions[procs[s].sub].pauseEnd = NoDate)
      => LET row == subscriptions[procs[s].sub]
             dates == procs[s].todo
             n == procs[s].count
             first == DayOf(row.startDate)
             step == StepDays(row.frequency)
         IN /\ Len(dates) = n
            /\ \A k \in 1..n : dates[k] = DateOf(first + (k - 1) * step, 0)
            /\ \A d \in first..(first + (n - 1) * step), tod \in 0..(TicksPerDay - 1) :
                 shouldDeliverOnDate(row.startDate, DateOf(d, tod), row.frequency)
                   <=> \E k \in 1..n : DayOf(dates[k]) = d

\* the schedule of MaxCount alternate-day deliveries from a start date with a
\* time of day, without pause period, has been computed
AlternateScheduleDone ==
  \E s \in Slots :
    /\ DatesDone(s) /\ procs[s].count = MaxCount
    /\ subscriptions[procs[s].sub].frequency = "alternate"
    /\ subscriptions[procs[s].sub].pauseStart = NoDate
    /\ subscriptions[procs[s].sub].pauseEnd = NoDate
    /\ subscriptions[procs[s].sub].startDate % TicksPerDay /= 0
    /\ Len(procs[s].todo) = MaxCount

====
